---- MODULE Spec2Model ----
(***************************************************************************)
(* Model of the document-to-analysis pipeline of the Cybersecurity         *)
(* backend: utils/aiProcessor.js (analyzeWithAI, the three provider        *)
(* adapters, structureAnalysis) and the text extraction of the document    *)
(* processor (extractText, extractFromPDF, extractFromWord,                *)
(* cleanExtractedText), and the document routes over the database          *)
(* (POST /upload, GET /:id, DELETE /:id).                                  *)
(*                                                                         *)
(* Representation of JavaScript values.  Every value is a record with a    *)
(* type tag t.  Strings on which the code does character work (provider,   *)
(* analysisType, customPrompt, the analysis text) are sequences of         *)
(* one-character strings in the field v.  The document content is kept     *)
(* run-length encoded in the field runs (a sequence of [c, n] runs), so    *)
(* that the limits of 50 and 50,000 characters are modelled at their real  *)
(* values.  The four fixed instruction blocks are single tokens.           *)
(***************************************************************************)
EXTENDS Integers, Sequences, FiniteSets, TLC

VARIABLES env, req, pc, clock, startTime, dispatchedAt, processingTime,
          adapterCalls, netRequests, response, outcome,
          saInput, saOutput,
          exFile, exDecoders, exOutcome,
          frames, wall,
          clText, clFirst, clPasses,
          documents, analyses, nextDocumentId, nextAnalysisId, deleted, handlers, started

\* one call of analyzeWithAI: the environment, the arguments, the position
\* of the call, the wall clock (ms), the locals startTime and processingTime,
\* the time at which the adapter was entered, the adapters entered, the
\* requests handed to axios, what the pending request settled with, and
\* what the caller gets
callVars == <<env, req, pc, clock, startTime, dispatchedAt, processingTime,
              adapterCalls, netRequests, response, outcome>>

\* one application of structureAnalysis
structVars == <<saInput, saOutput>>

\* one call of extractText: the uploaded file, the decoders invoked, and
\* what the caller gets
extractVars == <<exFile, exDecoders, exOutcome>>

\* two calls of analyzeWithAI in flight together: the variables of each
\* invocation, and the wall clock (ms)
pairVars == <<frames, wall>>

\* cleanExtractedText applied again and again to a text: the text, what the
\* first application returned, and the number of applications
cleanVars == <<clText, clFirst, clPasses>>

\* the document routes over the database: the rows of the tables documents
\* and analyses, the next values of their SERIAL ids, the documents rows
\* that were deleted, the request handlers in flight, and the number of
\* requests received
routeVars == <<documents, analyses, nextDocumentId, nextAnalysisId, deleted, handlers, started>>

vars == <<callVars, structVars, extractVars, pairVars, cleanVars, routeVars>>

(***************************************************************************)
(* Bounds of the model.                                                    *)
(***************************************************************************)
MaxPad == 1
Slack == 1
MaxLines == 3
MaxText == 3
MaxRequests == 2
Passes == 2

(***************************************************************************)
(* Program constants.                                                      *)
(***************************************************************************)
MinContentLength == 50
MaxDocumentChars == 50000

(***************************************************************************)
(* JavaScript values.                                                      *)
(***************************************************************************)
Undefined == [t |-> "undefined"]
Null == [t |-> "null"]
JSStr(s) == [t |-> "string", v |-> s]
RunStr(rs) == [t |-> "string", runs |-> rs]
JSArray(a) == [t |-> "array", v |-> a]
JSFunction(n) == [t |-> "function", name |-> n]
JSObject(n) == [t |-> "object", name |-> n]

IsString(x) == x.t = "string"
IsRunStr(x) == x.t = "string" /\ "runs" \in DOMAIN x

\* Whitespace as String.prototype.trim and the regex class \s see it.
WhiteSpace == {" ", "\t", "\n", "\r"}

RECURSIVE RunLength(_)
RunLength(rs) == IF rs = <<>> THEN 0 ELSE Head(rs).n + RunLength(Tail(rs))

\* x.length of a string value
Length(x) == IF IsRunStr(x) THEN RunLength(x.runs) ELSE Len(x.v)

\* JavaScript truthiness: undefined, null and '' are falsy; every array,
\* function and object (the empty array included) is truthy.
Truthy(x) ==
  CASE x.t \in {"undefined", "null"} -> FALSE
    [] x.t = "string" -> Length(x) > 0
    [] OTHER -> TRUE

RECURSIVE DropLeadingSpace(_)
DropLeadingSpace(rs) ==
  IF rs = <<>> THEN <<>>
  ELSE IF Head(rs).c \in WhiteSpace \/ Head(rs).n = 0
       THEN DropLeadingSpace(Tail(rs))
       ELSE rs

RECURSIVE Reverse(_)
Reverse(s) == IF s = <<>> THEN <<>> ELSE Append(Reverse(Tail(s)), Head(s))

RECURSIVE DropLeadingChars(_)
DropLeadingChars(s) ==
  IF s = <<>> THEN <<>>
  ELSE IF Head(s) \in WhiteSpace THEN DropLeadingChars(Tail(s)) ELSE s

\* String.prototype.trim
Trim(x) ==
  IF IsRunStr(x)
  THEN RunStr(Reverse(DropLeadingSpace(Reverse(DropLeadingSpace(x.runs)))))
  ELSE JSStr(Reverse(DropLeadingChars(Reverse(DropLeadingChars(x.v)))))

RECURSIVE TakeRuns(_, _)
TakeRuns(rs, k) ==
  IF rs = <<>> \/ k <= 0 THEN <<>>
  ELSE IF Head(rs).n <= k
       THEN <<Head(rs)>> \o TakeRuns(Tail(rs), k - Head(rs).n)
       ELSE <<[c |-> Head(rs).c, n |-> k]>>

\* content.substring(0, end)
Substring0(x, end) == RunStr(TakeRuns(x.runs, end))

UpperCase == <<"A","B","C","D","E","F","G","H","I","J","K","L","M",
               "N","O","P","Q","R","S","T","U","V","W","X","Y","Z">>
LowerCase == <<"a","b","c","d","e","f","g","h","i","j","k","l","m",
               "n","o","p","q","r","s","t","u","v","w","x","y","z">>

ToLowerChar(c) ==
  IF \E i \in 1..26 : UpperCase[i] = c
  THEN LowerCase[CHOOSE i \in 1..26 : UpperCase[i] = c]
  ELSE c

\* String.prototype.toLowerCase
ToLowerCase(x) == JSStr([i \in 1..Len(x.v) |-> ToLowerChar(x.v[i])])

\* String.prototype.includes
Includes(x, w) ==
  \E i \in 0..(Len(x.v) - Len(w)) : SubSeq(x.v, i + 1, i + Len(w)) = w

JSNum(n) == [t |-> "number", v |-> n]

\* a || b
OrElse(a, b) == IF Truthy(a) THEN a ELSE b

(***************************************************************************)
(* String literals of the source, as character sequences.                  *)
(***************************************************************************)
sClaude == <<"c","l","a","u","d","e">>
sOpenai == <<"o","p","e","n","a","i">>
sGemini == <<"g","e","m","i","n","i">>
sGeneral == <<"g","e","n","e","r","a","l">>
sSecurityReview == <<"s","e","c","u","r","i","t","y","-","r","e","v","i","e","w">>
sPolicyAnalysis == <<"p","o","l","i","c","y","-","a","n","a","l","y","s","i","s">>
sComplianceCheck == <<"c","o","m","p","l","i","a","n","c","e","-","c","h","e","c","k">>
sUndefined == <<"u","n","d","e","f","i","n","e","d">>
sNull == <<"n","u","l","l">>
sSummary == <<"s","u","m","m","a","r","y">>
sOverview == <<"o","v","e","r","v","i","e","w">>

(***************************************************************************)
(* ANALYSIS_PROMPTS: an object literal with four own keys.  Its prototype  *)
(* is Object.prototype, so a property read with another key finds what     *)
(* Object.prototype defines under that name, and undefined otherwise.      *)
(***************************************************************************)
PromptKeys == {sSecurityReview, sPolicyAnalysis, sComplianceCheck, sGeneral}

PromptBlock(key) ==
  CASE key = sSecurityReview -> JSStr(<<"[security-review instruction block]">>)
    [] key = sPolicyAnalysis -> JSStr(<<"[policy-analysis instruction block]">>)
    [] key = sComplianceCheck -> JSStr(<<"[compliance-check instruction block]">>)
    [] key = sGeneral -> JSStr(<<"[general instruction block]">>)

sConstructor == <<"c","o","n","s","t","r","u","c","t","o","r">>
sToString == <<"t","o","S","t","r","i","n","g">>
sValueOf == <<"v","a","l","u","e","O","f">>
sHasOwnProperty == <<"h","a","s","O","w","n","P","r","o","p","e","r","t","y">>
sProto == <<"_","_","p","r","o","t","o","_","_">>

ObjectPrototypeFunctions == {sConstructor, sToString, sValueOf, sHasOwnProperty}

\* the property key a value is converted to in obj[value]
PropertyKey(x) ==
  CASE x.t = "undefined" -> sUndefined
    [] x.t = "null" -> sNull
    [] OTHER -> x.v

\* ANALYSIS_PROMPTS[k]
ANALYSIS_PROMPTS(k) ==
  LET key == PropertyKey(k) IN
  IF key \in PromptKeys THEN PromptBlock(key)
  ELSE IF key \in ObjectPrototypeFunctions
       THEN JSFunction(IF key = sConstructor THEN <<"O","b","j","e","c","t">> ELSE key)
  ELSE IF key = sProto THEN JSObject("Object.prototype")
  ELSE Undefined

\* the conversion of a value embedded in a template literal
TemplateString(x) ==
  CASE x.t = "string" -> x
    [] x.t = "function" -> JSStr(<<"function ">> \o x.name \o <<"() { [native code] }">>)
    [] x.t = "object" -> JSStr(<<"[object Object]">>)
    [] x.t = "undefined" -> JSStr(sUndefined)
    [] x.t = "null" -> JSStr(sNull)

\* const prompt = customPrompt || ANALYSIS_PROMPTS[analysisType] || ANALYSIS_PROMPTS['general']
SelectPrompt(analysisType, customPrompt) ==
  OrElse(customPrompt, OrElse(ANALYSIS_PROMPTS(analysisType), ANALYSIS_PROMPTS(JSStr(sGeneral))))

DocumentSeparator == "\n\nDocument content:\n"

\* the template without the substring call
RequestText_untruncated(content, analysisType, customPrompt) ==
  [instruction |-> TemplateString(SelectPrompt(analysisType, customPrompt)),
   separator |-> DocumentSeparator,
   document |-> content]

\* `${prompt}\n\nDocument content:\n${content.substring(0, 50000)}`
RequestText(content, analysisType, customPrompt) ==
  [instruction |-> TemplateString(SelectPrompt(analysisType, customPrompt)),
   separator |-> DocumentSeparator,
   document |-> Substring0(content, MaxDocumentChars)]

RequestTimeout == 60000

\* the request one adapter hands to axios.post
AdapterRequest(name, content, analysisType, customPrompt) ==
  [provider |-> name,
   text |-> RequestText(content, analysisType, customPrompt),
   timeout |-> RequestTimeout]

(***************************************************************************)
(* structureAnalysis                                                       *)
(***************************************************************************)
\* the completion of a piece of code: a returned value or a thrown error
Returned(v) == [kind |-> "return", value |-> v]
Thrown(e) == [kind |-> "throw", error |-> e]

NotAFunction == [name |-> "TypeError", message |-> "is not a function", detail |-> ""]
CannotReadProperties == [name |-> "TypeError", message |-> "Cannot read properties of undefined", detail |-> ""]

\* s.split(sep): the pieces of the characters s between occurrences of sep
RECURSIVE SplitChars(_, _, _)
SplitChars(s, sep, cur) ==
  IF s = <<>> THEN <<cur>>
  ELSE IF Head(s) = sep
       THEN <<cur>> \o SplitChars(Tail(s), sep, <<>>)
       ELSE SplitChars(Tail(s), sep, Append(cur, Head(s)))

Split(x, sep) == SplitChars(x.v, sep, <<>>)

\* .filter(line => line.trim())
NonBlank(ls) == SelectSeq(ls, LAMBDA l : Truthy(Trim(JSStr(l))))

\* the for loop of lines 259-267: the section the buffer goes to
RECURSIVE ScanSection(_, _)
ScanSection(ls, currentSection) ==
  IF ls = <<>> THEN currentSection
  ELSE LET lowerLine == ToLowerCase(JSStr(Head(ls))) IN
       ScanSection(Tail(ls),
                   IF Includes(lowerLine, sSummary) \/ Includes(lowerLine, sOverview)
                   THEN "compliance"
                   ELSE currentSection)

\* the for loop of lines 259-267: currentContent += line + '\n'
RECURSIVE ScanContent(_)
ScanContent(ls) ==
  IF ls = <<>> THEN <<>> ELSE Head(ls) \o <<"\n">> \o ScanContent(Tail(ls))

\* a += str: an array is converted to a string first (the empty array to '')
PlusAssign(a, str) ==
  IF a.t = "array" THEN JSStr(str) ELSE JSStr(a.v \o str)

EmptySections ==
  [summary |-> JSStr(<<>>), findings |-> JSArray(<<>>), recommendations |-> JSArray(<<>>),
   risks |-> JSArray(<<>>), compliance |-> JSArray(<<>>)]

ArraySections == <<"findings", "recommendations", "risks", "compliance">>

\* .split('\n').filter(item => item.trim()).map(item => item.trim())
SectionItems(x) ==
  LET kept == NonBlank(Split(x, "\n")) IN
  JSArray([i \in 1..Len(kept) |-> Trim(JSStr(kept[i])).v])

\* the forEach of lines 275-282 over the sections names: a truthy section
\* is split; a value without a split method (an array) throws a TypeError
RECURSIVE ConvertSections(_, _)
ConvertSections(sections, names) ==
  IF names = <<>> THEN Returned(sections)
  ELSE LET section == Head(names) IN
       IF Truthy(sections[section])
       THEN IF sections[section].t = "string"
            THEN ConvertSections([sections EXCEPT ![section] = SectionItems(@)], Tail(names))
            ELSE Thrown(NotAFunction)
       ELSE ConvertSections(sections, Tail(names))

\* a conversion step that converts the sections that are strings and leaves
\* the sections that are still arrays as they are
StructureTry_arraysKept(analysisText) ==
  IF analysisText.t # "string" THEN Thrown(CannotReadProperties)
  ELSE LET lines == NonBlank(Split(analysisText, "\n"))
           currentSection == ScanSection(lines, "summary")
           currentContent == ScanContent(lines)
           sections == IF Truthy(JSStr(currentContent))
                       THEN [EmptySections EXCEPT ![currentSection] = PlusAssign(@, currentContent)]
                       ELSE EmptySections
       IN Returned([n \in DOMAIN sections |->
                      IF n # "summary" /\ sections[n].t = "string" /\ Truthy(sections[n])
                      THEN SectionItems(sections[n])
                      ELSE sections[n]])

\* the try block, lines 245-284
StructureTry(analysisText) ==
  IF analysisText.t # "string" THEN Thrown(CannotReadProperties)
  ELSE LET lines == NonBlank(Split(analysisText, "\n"))
           currentSection == ScanSection(lines, "summary")
           currentContent == ScanContent(lines)
           sections == IF Truthy(JSStr(currentContent))
                       THEN [EmptySections EXCEPT ![currentSection] = PlusAssign(@, currentContent)]
                       ELSE EmptySections
       IN ConvertSections(sections, ArraySections)

\* a catch block that lets the error escape
StructureFallback_rethrow(analysisText, error) == Thrown(error)

\* a catch block that returns the sections as they were initialised
StructureFallback_emptySummary(analysisText, error) == Returned(EmptySections)

\* the catch block, lines 286-295
StructureFallback(analysisText, error) ==
  Returned([summary |-> analysisText, findings |-> JSArray(<<>>), recommendations |-> JSArray(<<>>),
            risks |-> JSArray(<<>>), compliance |-> JSArray(<<>>)])

structureAnalysis(analysisText, analysisType) ==
  LET body == StructureTry(analysisText) IN
  IF body.kind = "throw" THEN StructureFallback(analysisText, body.error) ELSE body

(***************************************************************************)
(* The provider adapters after the await of axios.post.  A response is     *)
(* what the promise settles with: a rejection (timeout, network error or   *)
(* an HTTP error status, with the provider's error message when the body   *)
(* carries one) or a resolution with the provider's envelope, of which     *)
(* items is the list data.content / data.choices / data.candidates, each   *)
(* item reduced to its text field, and usage the token count.              *)
(***************************************************************************)
AxiosMessage(resp) ==
  CASE resp.cause = "timeout" -> "timeout of 60000ms exceeded"
    [] resp.cause = "network" -> "Network Error"
    [] resp.cause = "http" /\ resp.status = 401 -> "Request failed with status code 401"
    [] resp.cause = "http" /\ resp.status = 429 -> "Request failed with status code 429"
    [] OTHER -> "Request failed with status code 503"

\* error.response?.data?.error?.message || error.message
ErrorDetail(resp) == IF resp.apiMessage # "" THEN resp.apiMessage ELSE AxiosMessage(resp)

ServiceError(prefix, detail) == [name |-> "Error", message |-> prefix, detail |-> detail]

\* usage?.… || 0
TokensUsed(usage) == IF usage.t = "number" THEN usage.v ELSE 0

analyzeWithClaude(resp) ==
  IF resp.kind = "rejected"
  THEN Thrown(ServiceError("Claude AI service error: ", ErrorDetail(resp)))
  ELSE IF resp.items = <<>>
       THEN Thrown(ServiceError("Claude AI service error: ", CannotReadProperties.message))
       ELSE Returned([provider |-> "claude", analysis |-> resp.items[1],
                      model |-> "claude-3-sonnet", tokensUsed |-> TokensUsed(resp.usage),
                      status |-> "success"])

analyzeWithOpenAI(resp) ==
  IF resp.kind = "rejected"
  THEN Thrown(ServiceError("OpenAI service error: ", ErrorDetail(resp)))
  ELSE IF resp.items = <<>>
       THEN Thrown(ServiceError("OpenAI service error: ", CannotReadProperties.message))
       ELSE Returned([provider |-> "openai", analysis |-> resp.items[1],
                      model |-> "gpt-4", tokensUsed |-> TokensUsed(resp.usage),
                      status |-> "success"])

analyzeWithGemini(resp) ==
  IF resp.kind = "rejected"
  THEN Thrown(ServiceError("Gemini service error: ", ErrorDetail(resp)))
  ELSE LET analysisText == IF resp.items = <<>> THEN Undefined ELSE resp.items[1] IN
       IF ~Truthy(analysisText)
       THEN Thrown(ServiceError("Gemini service error: ", "No analysis text received from Gemini"))
       ELSE Returned([provider |-> "gemini", analysis |-> analysisText,
                      model |-> "gemini-pro", tokensUsed |-> TokensUsed(resp.usage),
                      status |-> "success"])

AdapterResume(name, resp) ==
  CASE name = "claude" -> analyzeWithClaude(resp)
    [] name = "openai" -> analyzeWithOpenAI(resp)
    [] name = "gemini" -> analyzeWithGemini(resp)

(***************************************************************************)
(* analyzeWithAI                                                           *)
(***************************************************************************)
NoContentError == [name |-> "Error", message |-> "No content provided for analysis", detail |-> ""]
TooShortError == [name |-> "Error", message |-> "Content too short for meaningful analysis", detail |-> ""]
NotConfiguredError(label) == [name |-> "Error", message |-> "API key not configured", detail |-> label]
UnsupportedProviderError(provider) ==
  [name |-> "Error", message |-> "Unsupported AI provider: ", detail |-> "", provider |-> provider.v]
ToLowerCaseTypeError == [name |-> "TypeError", message |-> "Cannot read properties of undefined", detail |-> "toLowerCase"]

Passed == [kind |-> "pass"]

\* the length check placed before the emptiness check
Validate_lengthFirst(content) ==
  IF Truthy(content) /\ Length(content) < MinContentLength THEN Thrown(TooShortError)
  ELSE IF ~Truthy(content) \/ Length(Trim(content)) = 0 THEN Thrown(NoContentError)
  ELSE Passed

\* lines 184-190
Validate(content) ==
  IF ~Truthy(content) \/ Length(Trim(content)) = 0 THEN Thrown(NoContentError)
  ELSE IF Length(content) < MinContentLength THEN Thrown(TooShortError)
  ELSE Passed

Invoke(names) == [kind |-> "invoke", adapters |-> names]

\* the switch without its credential checks
Dispatch_unchecked(e, provider) ==
  IF provider.t # "string" THEN Thrown(ToLowerCaseTypeError)
  ELSE LET p == ToLowerCase(provider).v IN
       CASE p = sClaude -> Invoke(<<"claude">>)
         [] p = sOpenai -> Invoke(<<"openai">>)
         [] p = sGemini -> Invoke(<<"gemini">>)
         [] OTHER -> Thrown(UnsupportedProviderError(provider))

\* the switch with a case that falls through to the next provider
Dispatch_fallThrough(e, provider) ==
  IF provider.t # "string" THEN Thrown(ToLowerCaseTypeError)
  ELSE LET p == ToLowerCase(provider).v IN
       CASE p = sClaude -> IF ~Truthy(e.claude) THEN Thrown(NotConfiguredError("Claude"))
                           ELSE Invoke(<<"claude", "openai">>)
         [] p = sOpenai -> IF ~Truthy(e.openai) THEN Thrown(NotConfiguredError("OpenAI"))
                           ELSE Invoke(<<"openai", "gemini">>)
         [] p = sGemini -> IF ~Truthy(e.gemini) THEN Thrown(NotConfiguredError("Gemini"))
                           ELSE Invoke(<<"gemini">>)
         [] OTHER -> Thrown(UnsupportedProviderError(provider))

\* the switch of lines 194-218, up to the call of the adapter
Dispatch(e, provider) ==
  IF provider.t # "string" THEN Thrown(ToLowerCaseTypeError)
  ELSE LET p == ToLowerCase(provider).v IN
       CASE p = sClaude -> IF ~Truthy(e.claude) THEN Thrown(NotConfiguredError("Claude"))
                           ELSE Invoke(<<"claude">>)
         [] p = sOpenai -> IF ~Truthy(e.openai) THEN Thrown(NotConfiguredError("OpenAI"))
                           ELSE Invoke(<<"openai">>)
         [] p = sGemini -> IF ~Truthy(e.gemini) THEN Thrown(NotConfiguredError("Gemini"))
                           ELSE Invoke(<<"gemini">>)
         [] OTHER -> Thrown(UnsupportedProviderError(provider))

\* analyzeWithAI from its entry to its first await, or to the error it throws
Begin(e, content, provider) ==
  LET checked == Validate(content) IN
  IF checked.kind = "throw" THEN checked ELSE Dispatch(e, provider)

\* structureAnalysis called with its two arguments exchanged
Finish_typeAsText(result, r, took, now) ==
  [provider |-> result.provider, analysis |-> result.analysis, model |-> result.model,
   tokensUsed |-> result.tokensUsed, status |-> result.status,
   metadata |-> [analysisType |-> r.analysisType, contentLength |-> Length(r.content),
                 processingTime |-> took, timestamp |-> now],
   structuredAnalysis |-> structureAnalysis(r.analysisType, result.analysis).value]

\* lines 220-235
Finish(result, r, took, now) ==
  [provider |-> result.provider, analysis |-> result.analysis, model |-> result.model,
   tokensUsed |-> result.tokensUsed, status |-> result.status,
   metadata |-> [analysisType |-> r.analysisType, contentLength |-> Length(r.content),
                 processingTime |-> took, timestamp |-> now],
   structuredAnalysis |-> structureAnalysis(result.analysis, r.analysisType).value]

(***************************************************************************)
(* The inputs the model draws from.                                        *)
(***************************************************************************)
Pad(n) == IF n = 0 THEN <<>> ELSE <<[c |-> " ", n |-> n]>>
Core(n) == IF n = 0 THEN <<>> ELSE <<[c |-> "a", n |-> n]>>

PadCounts == 0..MaxPad
ShortCores == {0} \cup ((MinContentLength - Slack)..(MinContentLength + Slack))
LongCores == {200, 60000} \cup ((MaxDocumentChars - Slack)..(MaxDocumentChars + Slack))

\* absent content; short texts with and without surrounding whitespace;
\* long texts; whitespace alone, of MinContentLength characters and more
ContentSamples ==
  {Undefined, Null}
  \cup {RunStr(Pad(l) \o Core(k) \o Pad(t)) : l \in PadCounts, k \in ShortCores, t \in PadCounts}
  \cup {RunStr(Core(k)) : k \in LongCores}
  \cup {RunStr(<<[c |-> " ", n |-> MinContentLength + n - 1], [c |-> "\n", n |-> n]>>) : n \in 1..Slack}

ProviderSamples ==
  {JSStr(sClaude), JSStr(sOpenai), JSStr(sGemini),
   JSStr(<<"C","l","a","u","d","e">>), JSStr(<<"f","o","o">>), Undefined}

AnalysisTypeSamples ==
  {Undefined, JSStr(sGeneral), JSStr(sSecurityReview), JSStr(sPolicyAnalysis),
   JSStr(sComplianceCheck), JSStr(<<"a","u","d","i","t">>), JSStr(sConstructor)}

CustomPromptSamples == {Undefined, JSStr(<<>>), JSStr(<<"L","i","s","t"," ","t","h","e"," ","r","i","s","k","s">>)}

EnvValues == {Undefined, JSStr(<<"k","e","y">>)}

tSummaryOk == <<"S","u","m","m","a","r","y",":"," ","o","k">>
tFindingNone == <<"F","i","n","d","i","n","g",":"," ","n","o","n","e">>
tOverview == <<"A","n"," ","O","V","E","R","V","I","E","W"," ","o","f"," ","i","t">>
tPlain == <<"o","k">>

AnswerSamples == {JSStr(tSummaryOk \o <<"\n">> \o tFindingNone), JSStr(tPlain)}

Rejected(cause, status, apiMessage, elapsed) ==
  [kind |-> "rejected", cause |-> cause, status |-> status, apiMessage |-> apiMessage,
   elapsed |-> elapsed]
Resolved(items, usage, elapsed) ==
  [kind |-> "resolved", items |-> items, usage |-> usage, elapsed |-> elapsed]

ResponseSamples ==
  {Rejected("timeout", 0, "", RequestTimeout),
   Rejected("network", 0, "", 0),
   Rejected("http", 401, "invalid api key", 1),
   Rejected("http", 429, "", 1),
   Rejected("http", 503, "", 1)}
  \cup {Resolved(<<a>>, JSNum(12), 1) : a \in AnswerSamples}
  \cup {Resolved(<<>>, Undefined, 1), Resolved(<<Undefined>>, Undefined, 1),
        Resolved(<<JSStr(<<>>)>>, JSNum(0), 0)}

(***************************************************************************)
(* One call of analyzeWithAI.                                              *)
(***************************************************************************)
NoRequest == [content |-> Undefined, provider |-> Undefined, analysisType |-> Undefined,
              customPrompt |-> Undefined]
NoOutcome == [kind |-> "none"]
NoResponse == [kind |-> "none"]

\* the time (ms) the synchronous part of a call takes, from its first
\* statement to the entry of the adapter
SpentSamples == {0, 3}

\* no call of analyzeWithAI has been made
CallIdle ==
  /\ req = NoRequest
  /\ pc = "idle"
  /\ clock = 0
  /\ startTime = 0
  /\ dispatchedAt = 0
  /\ processingTime = Undefined
  /\ adapterCalls = <<>>
  /\ netRequests = <<>>
  /\ response = NoResponse
  /\ outcome = NoOutcome

\* structureAnalysis is not being applied
StructIdle ==
  /\ saInput = Undefined
  /\ saOutput = NoOutcome

\* extractText is not being applied
NoFile == [mimetype |-> Undefined, buffer |-> Undefined]

ExtractIdle ==
  /\ exFile = NoFile
  /\ exDecoders = <<>>
  /\ exOutcome = NoOutcome

\* no pair of calls is in flight
PairIdle ==
  /\ frames = <<>>
  /\ wall = 0

\* cleanExtractedText is not being applied
CleanIdle ==
  /\ clText = Undefined
  /\ clFirst = Undefined
  /\ clPasses = 0

\* the tables are empty and no request was received
RouteIdle ==
  /\ documents = {}
  /\ analyses = {}
  /\ nextDocumentId = 1
  /\ nextAnalysisId = 1
  /\ deleted = {}
  /\ handlers = <<>>
  /\ started = 0

Init ==
  /\ env \in [claude : EnvValues, openai : EnvValues, gemini : EnvValues]
  /\ CallIdle
  /\ StructIdle
  /\ ExtractIdle
  /\ PairIdle
  /\ CleanIdle
  /\ RouteIdle

\* the parameter defaults of line 180 apply to an argument that is undefined
Arguments(content, provider, analysisType, customPrompt) ==
  [content |-> content, provider |-> provider,
   analysisType |-> IF analysisType.t = "undefined" THEN JSStr(sGeneral) ELSE analysisType,
   customPrompt |-> IF customPrompt.t = "undefined" THEN Null ELSE customPrompt]

\* analyzeWithAI is called and runs to its await, or to the error it throws;
\* startTime is read first (line 181), the rest takes spent ms
Call(content, provider, analysisType, customPrompt, spent) ==
  /\ pc = "idle"
  /\ LET r == Arguments(content, provider, analysisType, customPrompt)
         begun == Begin(env, r.content, r.provider)
     IN /\ req' = r
        /\ startTime' = clock
        /\ clock' = clock + spent
        /\ IF begun.kind = "throw"
           THEN /\ pc' = "done"
                /\ outcome' = begun
                /\ UNCHANGED <<adapterCalls, netRequests, dispatchedAt>>
           ELSE /\ pc' = "awaiting"
                /\ outcome' = NoOutcome
                /\ dispatchedAt' = clock'
                /\ adapterCalls' = adapterCalls \o begun.adapters
                /\ netRequests' = netRequests \o
                     [i \in 1..Len(begun.adapters) |->
                        AdapterRequest(begun.adapters[i], r.content, r.analysisType, r.customPrompt)]
  /\ UNCHANGED <<env, processingTime, response, structVars, extractVars, pairVars, cleanVars, routeVars>>

\* the pending axios.post settles; the adapter and analyzeWithAI run to the
\* end: line 220 is reached only when the adapter returned
ProviderResponds(resp) ==
  /\ pc = "awaiting"
  /\ clock' = clock + resp.elapsed
  /\ response' = resp
  /\ LET adapted == AdapterResume(Head(adapterCalls), resp) IN
     IF adapted.kind = "throw"
     THEN /\ outcome' = adapted
          /\ UNCHANGED processingTime
     ELSE /\ processingTime' = JSNum(clock' - startTime)
          /\ outcome' = Returned(Finish(adapted.value, req, processingTime'.v, clock'))
  /\ pc' = "done"
  /\ UNCHANGED <<env, req, startTime, dispatchedAt, adapterCalls, netRequests,
                 structVars, extractVars, pairVars, cleanVars, routeVars>>

\* some caller calls analyzeWithAI with some arguments
Request ==
  /\ pc = "idle"
  /\ \E content \in ContentSamples, provider \in ProviderSamples,
        analysisType \in AnalysisTypeSamples, customPrompt \in CustomPromptSamples,
        spent \in SpentSamples :
       Call(content, provider, analysisType, customPrompt, spent)

\* the provider, or the transport, answers the pending request
Response ==
  /\ pc = "awaiting"
  /\ \E resp \in ResponseSamples : ProviderResponds(resp)

Next == Request \/ Response

Spec == Init /\ [][Next]_vars

(***************************************************************************)
(* structureAnalysis applied to one text.                                  *)
(***************************************************************************)
LineSamples == {<<>>, <<" ", " ">>, <<" ">> \o tPlain \o <<" ">>, tSummaryOk, tFindingNone, tOverview}

RECURSIVE JoinLines(_)
JoinLines(ls) ==
  IF Len(ls) = 1 THEN Head(ls) ELSE Head(ls) \o <<"\n">> \o JoinLines(Tail(ls))

TextSamples ==
  {Undefined, Null, JSNum(7)}
  \cup {JSStr(JoinLines(ls)) : ls \in UNION {[1..n -> LineSamples] : n \in 1..MaxLines}}

NoEnv == [claude |-> Undefined, openai |-> Undefined, gemini |-> Undefined]

InitStructure ==
  /\ env = NoEnv
  /\ CallIdle
  /\ saInput \in TextSamples
  /\ saOutput = NoOutcome
  /\ ExtractIdle
  /\ PairIdle
  /\ CleanIdle
  /\ RouteIdle

Structure(analysisType) ==
  /\ saOutput = NoOutcome
  /\ saOutput' = structureAnalysis(saInput, analysisType)
  /\ UNCHANGED <<callVars, saInput, extractVars, pairVars, cleanVars, routeVars>>

NextStructure == \E analysisType \in AnalysisTypeSamples : Structure(analysisType)

SpecStructure == InitStructure /\ [][NextStructure]_vars

(***************************************************************************)
(* Text extraction (the document processor).  A buffer is reduced to what  *)
(* the decoders make of it: whether pdf-parse / mammoth accept it, and the *)
(* characters they, or buffer.toString('utf-8'), yield.  The message of an *)
(* extraction error is a string of tokens, one per literal part.           *)
(***************************************************************************)
SOH == "<SOH>"

\* the class [\x00-\x08\x0B\x0C\x0E-\x1F\x7F-\x9F] of line 244
ControlChars == {SOH}

ExError(parts) == [name |-> "Error", message |-> JSStr(parts)]

\* catch (error) { throw new Error(`<prefix>${error.message}`) }
Rewrap(prefix, out) ==
  IF out.kind = "throw" THEN Thrown(ExError(<<prefix>> \o out.error.message.v)) ELSE out

\* .replace(/\s+/g, ' ')
RECURSIVE CollapseWhiteSpace(_)
CollapseWhiteSpace(s) ==
  IF s = <<>> THEN <<>>
  ELSE IF Head(s) \in WhiteSpace
       THEN <<" ">> \o CollapseWhiteSpace(DropLeadingChars(s))
       ELSE <<Head(s)>> \o CollapseWhiteSpace(Tail(s))

\* the last position of a line break in the whitespace s starts with
LastBreak(s) ==
  LET run == Len(s) - Len(DropLeadingChars(s))
      breaks == {i \in 1..run : s[i] = "\n"}
  IN IF breaks = {} THEN 0 ELSE CHOOSE i \in breaks : \A j \in breaks : j <= i

\* .replace(/\n\s*\n/g, '\n\n')
RECURSIVE ReplaceBlankLines(_)
ReplaceBlankLines(s) ==
  IF s = <<>> THEN <<>>
  ELSE IF Head(s) = "\n" /\ LastBreak(Tail(s)) > 0
       THEN <<"\n", "\n">> \o ReplaceBlankLines(SubSeq(Tail(s), LastBreak(Tail(s)) + 1, Len(Tail(s))))
       ELSE <<Head(s)>> \o ReplaceBlankLines(Tail(s))

\* .replace(/[\x00-\x08\x0B\x0C\x0E-\x1F\x7F-\x9F]/g, '')
StripControl(s) == SelectSeq(s, LAMBDA c : c \notin ControlChars)

\* lines 235-247
cleanExtractedText(text) ==
  IF ~Truthy(text) THEN JSStr(<<>>)
  ELSE Trim(JSStr(StripControl(ReplaceBlankLines(CollapseWhiteSpace(text.v)))))

\* await pdfParse(buffer): data.text, or the rejection of the library
pdfParse(buffer) ==
  IF buffer.wellFormed THEN Returned(JSStr(buffer.text))
  ELSE Thrown(ExError(<<"Invalid PDF structure">>))

\* await mammoth.extractRawText({ buffer }): result.value, or the rejection
mammoth(buffer) ==
  IF buffer.wellFormed THEN Returned(JSStr(buffer.text))
  ELSE Thrown(ExError(<<"Can't find end of central directory">>))

\* lines 191-210
extractFromPDF(buffer) ==
  LET data == pdfParse(buffer) IN
  Rewrap("Failed to extract text from PDF: ",
         IF data.kind = "throw" THEN data
         ELSE LET text == Trim(data.value) IN
              IF ~Truthy(text) \/ Length(text) = 0
              THEN Thrown(ExError(<<"PDF appears to be empty or contains no readable text">>))
              ELSE Returned(cleanExtractedText(text)))

\* lines 213-232
extractFromWord(buffer) ==
  LET result == mammoth(buffer) IN
  Rewrap("Failed to extract text from Word document: ",
         IF result.kind = "throw" THEN result
         ELSE LET text == Trim(result.value) IN
              IF ~Truthy(text) \/ Length(text) = 0
              THEN Thrown(ExError(<<"Word document appears to be empty or contains no readable text">>))
              ELSE Returned(cleanExtractedText(text)))

mPdf == JSStr(<<"application/pdf">>)
mDoc == JSStr(<<"application/msword">>)
mDocx == JSStr(<<"application/vnd.openxmlformats-officedocument.wordprocessingml.document">>)
mPlain == JSStr(<<"text/plain">>)
mMarkdown == JSStr(<<"text/markdown">>)

\* a switch whose default case decodes the buffer as text
DecoderFor_defaultText(mimetype) ==
  CASE mimetype = mPdf -> "pdfParse"
    [] mimetype \in {mDoc, mDocx} -> "mammoth"
    [] OTHER -> "toString"

\* the switch of lines 168-182: the decoder the case of the mimetype uses
DecoderFor(mimetype) ==
  CASE mimetype = mPdf -> "pdfParse"
    [] mimetype \in {mDoc, mDocx} -> "mammoth"
    [] mimetype \in {mPlain, mMarkdown} -> "toString"
    [] OTHER -> "none"

\* lines 162-188
extractText(file) ==
  LET decoder == DecoderFor(file.mimetype) IN
  Rewrap("Failed to extract text: ",
         CASE decoder = "pdfParse" -> extractFromPDF(file.buffer)
           [] decoder = "mammoth" -> extractFromWord(file.buffer)
           [] decoder = "toString" -> Returned(JSStr(file.buffer.text))
           [] OTHER -> Thrown(ExError(<<"Unsupported file type: ">> \o TemplateString(file.mimetype).v)))

(***************************************************************************)
(* extractText applied to one uploaded file.                               *)
(***************************************************************************)
ExChars == {"a", " ", "\n", SOH}

\* the texts of up to MaxText characters, and one with a control character
\* between two spaces
DecodedSamples ==
  UNION {[1..n -> ExChars] : n \in 0..MaxText} \cup {<<"a", " ", SOH, " ", "a">>}

MimeSamples ==
  {mPdf, mDoc, mDocx, mPlain, mMarkdown,
   JSStr(<<"image/png">>), JSStr(<<"TEXT/PLAIN">>), Undefined}

FileSamples ==
  {[mimetype |-> m, buffer |-> [wellFormed |-> w, text |-> t]] :
     m \in MimeSamples, w \in BOOLEAN, t \in DecodedSamples}

InitExtract ==
  /\ env = NoEnv
  /\ CallIdle
  /\ StructIdle
  /\ PairIdle
  /\ CleanIdle
  /\ RouteIdle
  /\ exFile \in FileSamples
  /\ exDecoders = <<>>
  /\ exOutcome = NoOutcome

\* extractText runs on the file, from its call to its return or throw
Extract ==
  /\ exOutcome = NoOutcome
  /\ exOutcome' = extractText(exFile)
  /\ exDecoders' = IF DecoderFor(exFile.mimetype) = "none" THEN <<>>
                   ELSE <<DecoderFor(exFile.mimetype)>>
  /\ UNCHANGED <<callVars, structVars, exFile, pairVars, cleanVars, routeVars>>

NextExtract == Extract

SpecExtract == InitExtract /\ [][NextExtract]_vars

(***************************************************************************)
(* cleanExtractedText applied to a text, and again to what it returned.    *)
(***************************************************************************)
\* absent text, the decoded texts, and texts with a control character after
\* a space
CleanSamples ==
  {Undefined, Null}
  \cup {JSStr(t) : t \in DecodedSamples}
  \cup {JSStr(<<"a", " ", SOH>> \o t) : t \in [1..2 -> ExChars]}

InitClean ==
  /\ env = NoEnv
  /\ CallIdle
  /\ StructIdle
  /\ ExtractIdle
  /\ PairIdle
  /\ RouteIdle
  /\ clText \in CleanSamples
  /\ clFirst = Undefined
  /\ clPasses = 0

\* one application of cleanExtractedText to the text at hand
Clean ==
  /\ clPasses < Passes
  /\ clText' = cleanExtractedText(clText)
  /\ clFirst' = IF clPasses = 0 THEN clText' ELSE clFirst
  /\ clPasses' = clPasses + 1
  /\ UNCHANGED <<callVars, structVars, extractVars, pairVars, routeVars>>

NextClean == Clean

SpecClean == InitClean /\ [][NextClean]_vars

(***************************************************************************)
(* Two calls of analyzeWithAI in flight together.  Node runs each call     *)
(* without interruption from its entry to its await and from the           *)
(* settlement of its request to its end; the calls interleave at the       *)
(* await.  A frame holds what one invocation keeps in its parameters and   *)
(* local constants; process.env and ANALYSIS_PROMPTS are shared and only   *)
(* read.                                                                   *)
(***************************************************************************)
CallIds == {1, 2}

IdleFrame ==
  [pc |-> "idle", req |-> NoRequest, startTime |-> 0, adapter |-> "none",
   response |-> NoResponse, processingTime |-> Undefined, finishedAt |-> 0,
   outcome |-> NoOutcome]

PairEnv == [claude |-> JSStr(<<"k","e","y">>), openai |-> Undefined, gemini |-> JSStr(<<"k","e","y">>)]

PairContentSamples ==
  {Undefined, RunStr(Core(MinContentLength - 1)), RunStr(Core(MinContentLength)),
   RunStr(Core(MinContentLength + 1))}

PairProviderSamples == {JSStr(sClaude), JSStr(sOpenai), JSStr(sGemini), JSStr(<<"f","o","o">>)}

PairAnalysisTypeSamples == {Undefined, JSStr(sSecurityReview)}

PairSpentSamples == {0, 1}

PairResponseSamples ==
  {Rejected("timeout", 0, "", RequestTimeout),
   Rejected("network", 0, "", 1),
   Rejected("http", 401, "invalid api key", 1),
   Rejected("http", 429, "", 1),
   Resolved(<<JSStr(tPlain)>>, JSNum(12), 1),
   Resolved(<<>>, Undefined, 1)}

InitPair ==
  /\ env = PairEnv
  /\ CallIdle
  /\ StructIdle
  /\ ExtractIdle
  /\ frames = [i \in CallIds |-> IdleFrame]
  /\ wall = 0
  /\ CleanIdle
  /\ RouteIdle

\* startTime kept in one variable of the module, written by every call
Frame_sharedStartTime(fs, i) ==
  LET begun == {j \in DOMAIN fs : fs[j].pc # "idle"}
      latest == CHOOSE j \in begun : \A k \in begun : fs[k].startTime <= fs[j].startTime
  IN [fs[i] EXCEPT !.startTime = fs[latest].startTime]

\* the parameters and constants of invocation i (lines 180-181)
Frame(fs, i) == fs[i]

\* analyzeWithAI after its await, lines 220-240
Resume(f, resp, clk) ==
  LET adapted == AdapterResume(f.adapter, resp) IN
  IF adapted.kind = "throw" THEN adapted
  ELSE Returned(Finish(adapted.value, f.req, clk - f.startTime, clk))

\* invocation i is called and runs to its await, or to the error it throws
PairCall(i, content, provider, analysisType, customPrompt, spent) ==
  /\ frames[i].pc = "idle"
  /\ wall' = wall + spent
  /\ LET r == Arguments(content, provider, analysisType, customPrompt)
         begun == Begin(env, r.content, r.provider)
     IN frames' = [frames EXCEPT ![i] =
          IF begun.kind = "throw"
          THEN [@ EXCEPT !.pc = "done", !.req = r, !.startTime = wall,
                         !.finishedAt = wall', !.outcome = begun]
          ELSE [@ EXCEPT !.pc = "awaiting", !.req = r, !.startTime = wall,
                         !.adapter = Head(begun.adapters)]]
  /\ UNCHANGED <<callVars, structVars, extractVars, cleanVars, routeVars>>

\* the request of invocation i settles and the invocation runs to its end
PairResponds(i, resp) ==
  /\ frames[i].pc = "awaiting"
  /\ wall' = wall + resp.elapsed
  /\ LET result == Resume(Frame(frames, i), resp, wall') IN
     frames' = [frames EXCEPT ![i] =
       [@ EXCEPT !.pc = "done", !.response = resp, !.finishedAt = wall',
                 !.processingTime = IF result.kind = "return"
                                    THEN JSNum(result.value.metadata.processingTime)
                                    ELSE @,
                 !.outcome = result]]
  /\ UNCHANGED <<callVars, structVars, extractVars, cleanVars, routeVars>>

PairRequest(i) ==
  /\ frames[i].pc = "idle"
  /\ \E content \in PairContentSamples, provider \in PairProviderSamples,
        analysisType \in PairAnalysisTypeSamples, spent \in PairSpentSamples :
       PairCall(i, content, provider, analysisType, Undefined, spent)

PairResponse(i) ==
  /\ frames[i].pc = "awaiting"
  /\ \E resp \in PairResponseSamples : PairResponds(i, resp)

NextPair == \E i \in CallIds : PairRequest(i) \/ PairResponse(i)

SpecPair == InitPair /\ [][NextPair]_vars

(***************************************************************************)
(* The document routes: POST /upload, GET /:id, DELETE /:id.  The database *)
(* is reachable and executes one statement at a time; a statement fails    *)
(* only when it breaks a constraint of the schema.  The message of an      *)
(* error is the sequence of its characters where the handler searches it,  *)
(* with the parts that come from elsewhere kept as one token each.         *)
(***************************************************************************)
sAIService == <<"A","I"," ","s","e","r","v","i","c","e">>
sInvalidFileType == <<"I","n","v","a","l","i","d"," ","f","i","l","e"," ","t","y","p","e">>
sServiceError == <<" ","s","e","r","v","i","c","e"," ","e","r","r","o","r",":"," ">>

\* error.message of an error thrown by analyzeWithAI or extractText
MessageChars(error) ==
  IF "detail" \in DOMAIN error
  THEN CASE error.message = "Claude AI service error: " ->
              <<"C","l","a","u","d","e"," ","A","I">> \o sServiceError \o <<error.detail>>
         [] error.message = "OpenAI service error: " ->
              <<"O","p","e","n","A","I">> \o sServiceError \o <<error.detail>>
         [] error.message = "Gemini service error: " ->
              <<"G","e","m","i","n","i">> \o sServiceError \o <<error.detail>>
         [] error.message = "API key not configured" -> <<error.detail, " API key not configured">>
         [] OTHER -> <<error.message>>
  ELSE error.message.v

Answer(status, error) == [status |-> status, error |-> error]
NoAnswer == Answer(0, "")

\* the catch block of POST /upload, lines 419-440
UploadCatch(error) ==
  LET message == JSStr(MessageChars(error)) IN
  IF Includes(message, sInvalidFileType) THEN Answer(400, "Invalid file type")
  ELSE IF Includes(message, sAIService) THEN Answer(503, "AI service unavailable")
  ELSE Answer(500, "Processing failed")

\* the express-validator chain of lines 350-352
ValidationErrors(aiProvider, analysisType, customPrompt) ==
  (IF aiProvider.t = "string" /\ aiProvider.v \in {sClaude, sOpenai, sGemini}
   THEN {} ELSE {"Invalid AI provider"})
  \cup (IF analysisType.t = "undefined" \/ (analysisType.t = "string" /\ analysisType.v \in PromptKeys)
        THEN {} ELSE {"Invalid analysis type"})
  \cup (IF customPrompt.t = "undefined" \/ (customPrompt.t = "string" /\ Length(customPrompt) <= 1000)
        THEN {} ELSE {"Custom prompt too long"})

\* an insert into analyses of a row whose document_id names no documents
\* row breaks the foreign key of line 62
ForeignKeyError ==
  ExError(<<"insert or update on table \"analyses\" violates foreign key constraint">>)

Ids(rows) == {r.id : r \in rows}

SlotIds == {1, 2}
UserIds == {1, 2}

\* a request handler: the route, req.user.userId, its position, the id of
\* the document it is about (req.params.id, or the id its INSERT returned),
\* the adapter it waits for, the steps it has taken, what made it fail,
\* and the response it sent
IdleHandler ==
  [kind |-> "none", user |-> 0, pc |-> "idle", id |-> 0, adapter |-> "none",
   steps |-> <<>>, raisedBy |-> "none", res |-> NoAnswer]

RouteEnv == [claude |-> JSStr(<<"k","e","y">>), openai |-> JSStr(<<"k","e","y">>),
             gemini |-> JSStr(<<"k","e","y">>)]

LongText == [i \in 1..MinContentLength |-> "a"]

WellFormed(text) == [wellFormed |-> TRUE, text |-> text]

\* no file; a PDF with enough text, a corrupt PDF, a text file of
\* whitespace, a text file too short to analyse
UploadFileSamples ==
  {Undefined,
   [mimetype |-> mPdf, buffer |-> WellFormed(LongText)],
   [mimetype |-> mPdf, buffer |-> [wellFormed |-> FALSE, text |-> <<>>]],
   [mimetype |-> mPlain, buffer |-> WellFormed(<<" ", " ">>)],
   [mimetype |-> mPlain, buffer |-> WellFormed(<<"a", " ", "a">>)]}

UploadProviderSamples == {JSStr(sClaude), JSStr(sOpenai), JSStr(sGemini), JSStr(<<"f","o","o">>)}

UploadAnalysisTypeSamples == {Undefined, JSStr(<<"a","u","d","i","t">>)}

UploadResponseSamples ==
  {Rejected("timeout", 0, "", RequestTimeout),
   Rejected("http", 429, "", 1),
   Resolved(<<JSStr(tPlain)>>, JSNum(12), 1),
   Resolved(<<>>, Undefined, 1)}

InitRoutes ==
  /\ env = RouteEnv
  /\ CallIdle
  /\ StructIdle
  /\ ExtractIdle
  /\ PairIdle
  /\ CleanIdle
  /\ documents = {}
  /\ analyses = {}
  /\ nextDocumentId = 1
  /\ nextAnalysisId = 1
  /\ deleted = {}
  /\ handlers = [s \in SlotIds |-> IdleHandler]
  /\ started = 0

Free(s) == handlers[s].pc \in {"idle", "done"}

Failed(h, by, answer, steps) ==
  [h EXCEPT !.pc = "done", !.raisedBy = by, !.res = answer, !.steps = steps \o <<"respond">>]

\* POST /upload, lines 353-397: from the entry of the handler to the await
\* of the provider inside analyzeWithAI, or to the response it sends before
UploadStart(h, file, aiProvider, analysisType, customPrompt, documentId) ==
  IF ValidationErrors(aiProvider, analysisType, customPrompt) # {}
  THEN Failed(h, "validation", Answer(400, "Validation failed"), <<>>)
  ELSE IF file = Undefined
  THEN Failed(h, "validation", Answer(400, "No file uploaded"), <<>>)
  ELSE LET extracted == extractText(file) IN
       IF extracted.kind = "throw"
       THEN Failed(h, "extraction", UploadCatch(extracted.error), <<"extract">>)
       ELSE IF ~Truthy(extracted.value) \/ Length(Trim(extracted.value)) = 0
       THEN Failed(h, "validation", Answer(400, "Cannot extract text"), <<"extract">>)
       ELSE LET r == Arguments(extracted.value, aiProvider, analysisType, customPrompt)
                begun == Begin(env, r.content, r.provider)
            IN IF begun.kind = "throw"
               THEN [Failed(h, "analyzeWithAI", UploadCatch(begun.error),
                            <<"extract", "insert documents">>)
                       EXCEPT !.id = documentId]
               ELSE [h EXCEPT !.pc = "awaiting", !.id = documentId,
                              !.adapter = Head(begun.adapters),
                              !.steps = <<"extract", "insert documents", "provider call">>]

Took(h, step) == \E i \in DOMAIN h.steps : h.steps[i] = step

\* a handler that writes the analyses row whether the provider call
\* succeeded or not
UploadFinish_insertOnFailure(h, resp, docs) ==
  LET adapted == AdapterResume(h.adapter, resp) IN
  IF adapted.kind = "throw"
  THEN Failed(h, "adapter", UploadCatch(adapted.error), h.steps \o <<"insert analyses">>)
  ELSE IF h.id \notin Ids(docs)
  THEN Failed(h, "database", UploadCatch(ForeignKeyError), h.steps)
  ELSE [h EXCEPT !.pc = "done", !.res = Answer(200, ""),
                 !.steps = h.steps \o <<"insert analyses", "respond">>]

\* POST /upload, lines 397-440: from the settlement of the provider request
\* to the response, over the documents rows docs
UploadFinish(h, resp, docs) ==
  LET adapted == AdapterResume(h.adapter, resp) IN
  IF adapted.kind = "throw"
  THEN Failed(h, "adapter", UploadCatch(adapted.error), h.steps)
  ELSE IF h.id \notin Ids(docs)
  THEN Failed(h, "database", UploadCatch(ForeignKeyError), h.steps)
  ELSE [h EXCEPT !.pc = "done", !.res = Answer(200, ""),
                 !.steps = h.steps \o <<"insert analyses", "respond">>]

\* a schema without ON DELETE CASCADE on analyses.document_id
Cascade_none(rows, id) == rows

\* ON DELETE CASCADE of line 62: the analyses rows left when the documents
\* row id is deleted
Cascade(rows, id) == {a \in rows : a.document_id # id}

\* POST /upload is received and runs to its await of the provider
Upload(s, user, file, aiProvider, analysisType) ==
  /\ Free(s)
  /\ started < MaxRequests
  /\ started' = started + 1
  /\ LET h == UploadStart([IdleHandler EXCEPT !.kind = "upload", !.user = user],
                          file, aiProvider, analysisType, Undefined, nextDocumentId)
     IN /\ handlers' = [handlers EXCEPT ![s] = h]
        /\ IF Took(h, "insert documents")
           THEN /\ documents' = documents \cup {[id |-> nextDocumentId, user_id |-> user]}
                /\ nextDocumentId' = nextDocumentId + 1
           ELSE UNCHANGED <<documents, nextDocumentId>>
  /\ UNCHANGED <<callVars, structVars, extractVars, pairVars, cleanVars,
                 analyses, nextAnalysisId, deleted>>

\* the provider request of an upload settles and the handler runs to its end
UploadSettle(s, resp) ==
  /\ handlers[s].kind = "upload"
  /\ handlers[s].pc = "awaiting"
  /\ LET h == UploadFinish(handlers[s], resp, documents) IN
     /\ handlers' = [handlers EXCEPT ![s] = h]
     /\ IF Took(h, "insert analyses")
        THEN /\ analyses' = analyses \cup
                  {[id |-> nextAnalysisId, document_id |-> h.id, user_id |-> h.user,
                    ai_provider |-> h.adapter]}
             /\ nextAnalysisId' = nextAnalysisId + 1
        ELSE UNCHANGED <<analyses, nextAnalysisId>>
  /\ UNCHANGED <<callVars, structVars, extractVars, pairVars, cleanVars,
                 documents, nextDocumentId, deleted, started>>

\* the rows of SELECT ... FROM documents WHERE id = $1 AND user_id = $2
OwnRows(docs, id, user) == {d \in docs : d.id = id /\ d.user_id = user}

NotFound == Answer(404, "Document not found")

\* GET /:id, lines 492-543
Get(s, user, id) ==
  /\ Free(s)
  /\ started < MaxRequests
  /\ started' = started + 1
  /\ handlers' = [handlers EXCEPT ![s] =
       [IdleHandler EXCEPT !.kind = "get", !.user = user, !.id = id, !.pc = "done",
                           !.steps = <<"select", "respond">>,
                           !.res = IF OwnRows(documents, id, user) = {} THEN NotFound
                                   ELSE Answer(200, "")]]
  /\ UNCHANGED <<callVars, structVars, extractVars, pairVars, cleanVars,
                 documents, analyses, nextDocumentId, nextAnalysisId, deleted>>

\* DELETE /:id, lines 546-561: the ownership check
DeleteCheck(s, user, id) ==
  /\ Free(s)
  /\ started < MaxRequests
  /\ started' = started + 1
  /\ handlers' = [handlers EXCEPT ![s] =
       IF OwnRows(documents, id, user) = {}
       THEN [IdleHandler EXCEPT !.kind = "delete", !.user = user, !.id = id, !.pc = "done",
                                !.steps = <<"select", "respond">>, !.res = NotFound]
       ELSE [IdleHandler EXCEPT !.kind = "delete", !.user = user, !.id = id,
                                !.pc = "checked", !.steps = <<"select">>]]
  /\ UNCHANGED <<callVars, structVars, extractVars, pairVars, cleanVars,
                 documents, analyses, nextDocumentId, nextAnalysisId, deleted>>

\* DELETE /:id, line 564: DELETE FROM analyses WHERE document_id = $1
DeleteAnalyses(s) ==
  /\ handlers[s].kind = "delete"
  /\ handlers[s].pc = "checked"
  /\ analyses' = {a \in analyses : a.document_id # handlers[s].id}
  /\ handlers' = [handlers EXCEPT ![s].pc = "analysesDeleted",
                                  ![s].steps = @ \o <<"delete analyses">>]
  /\ UNCHANGED <<callVars, structVars, extractVars, pairVars, cleanVars,
                 documents, nextDocumentId, nextAnalysisId, deleted, started>>

\* DELETE /:id, lines 567-574: DELETE FROM documents WHERE id = $1, and the
\* response
DeleteDocument(s) ==
  /\ handlers[s].kind = "delete"
  /\ handlers[s].pc = "analysesDeleted"
  /\ documents' = {d \in documents : d.id # handlers[s].id}
  /\ deleted' = deleted \cup {d \in documents : d.id = handlers[s].id}
  /\ analyses' = IF handlers[s].id \in Ids(documents)
                 THEN Cascade(analyses, handlers[s].id) ELSE analyses
  /\ handlers' = [handlers EXCEPT ![s].pc = "done", ![s].res = Answer(200, ""),
                                  ![s].steps = @ \o <<"delete documents", "respond">>]
  /\ UNCHANGED <<callVars, structVars, extractVars, pairVars, cleanVars,
                 nextDocumentId, nextAnalysisId, started>>

DocumentIdSamples == 1..MaxRequests

UploadRequest(s) ==
  /\ Free(s)
  /\ \E user \in UserIds, file \in UploadFileSamples, aiProvider \in UploadProviderSamples,
        analysisType \in UploadAnalysisTypeSamples :
       Upload(s, user, file, aiProvider, analysisType)

UploadResponse(s) ==
  /\ handlers[s].pc = "awaiting"
  /\ \E resp \in UploadResponseSamples : UploadSettle(s, resp)

GetRequest(s) ==
  /\ Free(s)
  /\ \E user \in UserIds, id \in DocumentIdSamples : Get(s, user, id)

DeleteRequest(s) ==
  /\ Free(s)
  /\ \E user \in UserIds, id \in DocumentIdSamples : DeleteCheck(s, user, id)

NextRoutes ==
  \E s \in SlotIds :
    \/ UploadRequest(s)
    \/ UploadResponse(s)
    \/ GetRequest(s)
    \/ DeleteRequest(s)
    \/ DeleteAnalyses(s)
    \/ DeleteDocument(s)

SpecRoutes == InitRoutes /\ [][NextRoutes]_vars

(***************************************************************************)
(* Claims about structureAnalysis, checked under SpecStructure.            *)
(***************************************************************************)
SectionNames == {"summary", "findings", "recommendations", "risks", "compliance"}

NoSummaryLine(text) ==
  /\ ~Includes(ToLowerCase(text), sSummary)
  /\ ~Includes(ToLowerCase(text), sOverview)

C10_NoStructureDegradesToSummary ==
  (saOutput # NoOutcome /\ saInput.t = "string" /\ NoSummaryLine(saInput)) =>
    /\ saOutput.kind = "return"
    /\ saOutput.value.summary = saInput
    /\ \A n \in SectionNames \ {"summary"} : saOutput.value[n] = JSArray(<<>>)

C10_Witness ==
  /\ saInput = JSStr(tFindingNone \o <<"\n", "\n", " ">> \o tPlain \o <<" ">>)
  /\ saOutput # NoOutcome
  /\ saOutput.value.summary = saInput

\* C20: when some line of the raw analysis text contains 'summary' or
\* 'overview' in any letter case, the returned compliance field is the
\* ordered sequence of the non-blank, trimmed lines of the text scanned
\* (summary does not hold that content), and every section other than
\* summary is a sequence of non-blank trimmed lines.
C20_BufferFlushedToCompliance ==
  (saOutput # NoOutcome /\ saInput.t = "string" /\ ~NoSummaryLine(saInput)) =>
    /\ saOutput.kind = "return"
    /\ saOutput.value.compliance = SectionItems(saInput)
    /\ saOutput.value.summary # saInput
    /\ \A n \in SectionNames \ {"summary"} :
         /\ saOutput.value[n].t = "array"
         /\ \A i \in DOMAIN saOutput.value[n].v :
              LET item == JSStr(saOutput.value[n].v[i]) IN Truthy(item) /\ Trim(item) = item

\* C21: for every input x (a string with or without 'summary'/'overview'
\* lines, the empty string, a value that is not a string) and every
\* analysis type, structureAnalysis returns exactly summary = x and
\* findings, recommendations, risks and compliance empty: the fallback
\* branch is the only one that returns.
C21_AlwaysFallback ==
  saOutput # NoOutcome =>
    saOutput = Returned([summary |-> saInput, findings |-> JSArray(<<>>),
                         recommendations |-> JSArray(<<>>), risks |-> JSArray(<<>>),
                         compliance |-> JSArray(<<>>)])

C21_Witness ==
  /\ saInput = JSStr(tOverview \o <<"\n">> \o tFindingNone)
  /\ saOutput # NoOutcome
  /\ saOutput.value.summary = saInput
  /\ saOutput.value.compliance = JSArray(<<>>)

(***************************************************************************)
(* Claims about extractText, checked under SpecExtract.                    *)
(***************************************************************************)
SupportedMimeTypes == {mPdf, mDoc, mDocx, mPlain, mMarkdown}

Extracted == exOutcome # NoOutcome

\* the error says that the file type is not supported
SaysUnsupported(error) ==
  /\ Len(error.message.v) >= 2
  /\ error.message.v[2] = "Unsupported file type: "

\* the error says that the document has no readable text
SaysEmpty(error) ==
  \E i \in DOMAIN error.message.v :
    error.message.v[i] \in {"PDF appears to be empty or contains no readable text",
                            "Word document appears to be empty or contains no readable text"}

\* C15: extractText dispatches on the declared mimetype alone: for every
\* file whose mimetype is none of the five supported ones, whatever its
\* buffer holds, it fails with 'Unsupported file type: <mimetype>' and
\* invokes no decoder; no failure on a supported mimetype (a decoder error,
\* an empty document) carries that message.
C15_UnsupportedFormat ==
  /\ (Extracted /\ exFile.mimetype \notin SupportedMimeTypes) =>
       /\ exOutcome.kind = "throw"
       /\ exOutcome.error.message =
            JSStr(<<"Failed to extract text: ", "Unsupported file type: ">>
                  \o TemplateString(exFile.mimetype).v)
       /\ exDecoders = <<>>
  /\ (Extracted /\ exFile.mimetype \in SupportedMimeTypes) =>
       /\ Len(exDecoders) = 1
       /\ exOutcome.kind = "throw" => ~SaysUnsupported(exOutcome.error)

C15_Witness ==
  /\ Extracted
  /\ exFile.mimetype = JSStr(<<"TEXT/PLAIN">>)
  /\ exFile.buffer = [wellFormed |-> TRUE, text |-> <<"a", " ", "a">>]
  /\ exOutcome.kind = "throw"
  /\ SaysUnsupported(exOutcome.error)

\* the text is empty or whitespace alone
Blank(x) == Length(Trim(x)) = 0

\* C16: for every supported mimetype, extractText fails with the empty
\* content error whenever the decoded raw text is blank after trimming,
\* and never returns an empty or whitespace-only string.
C16_EmptyContent ==
  /\ (/\ Extracted
      /\ exFile.mimetype \in SupportedMimeTypes
      /\ exFile.buffer.wellFormed
      /\ Blank(JSStr(exFile.buffer.text))) =>
       /\ exOutcome.kind = "throw"
       /\ SaysEmpty(exOutcome.error)
  /\ (Extracted /\ exOutcome.kind = "return") => ~Blank(exOutcome.value)

\* the characters s hold the characters w at consecutive positions
Holds(s, w) == \E i \in 0..(Len(s) - Len(w)) : SubSeq(s, i + 1, i + Len(w)) = w

\* C17: for every supported mimetype and decoded text, the text a
\* successful extractText returns is non-empty and normalized: no control
\* character, no two spaces in a row, no more than one blank line in a
\* row, no leading or trailing whitespace.
C17_ExtractedTextNormalized ==
  (Extracted /\ exOutcome.kind = "return") =>
    LET text == exOutcome.value.v IN
    /\ Len(text) > 0
    /\ \A i \in DOMAIN text : text[i] \notin ControlChars
    /\ ~Holds(text, <<" ", " ">>)
    /\ ~Holds(text, <<"\n", "\n", "\n">>)
    /\ Head(text) \notin WhiteSpace
    /\ text[Len(text)] \notin WhiteSpace

(***************************************************************************)
(* Claims about cleanExtractedText, checked under SpecClean.               *)
(***************************************************************************)
\* C22: cleanExtractedText is idempotent: for every text over printable,
\* space, newline and control characters, applying it to its own result
\* returns that result unchanged.
C22_CleanIdempotent ==
  clPasses = Passes => clText = clFirst

(***************************************************************************)
(* Claims about analyzeWithAI, checked under Spec.                         *)
(***************************************************************************)
Called == pc # "idle"

\* the content is absent or has no character that is not whitespace
BlankContent(content) ==
  \/ content.t # "string"
  \/ \A i \in DOMAIN content.runs : content.runs[i].c \in WhiteSpace \/ content.runs[i].n = 0

\* the number of characters of the content from its first to its last
\* character that is not whitespace
NormalizedLength(content) ==
  LET rs == content.runs
      inked == {i \in DOMAIN rs : rs[i].c \notin WhiteSpace /\ rs[i].n > 0}
      first == CHOOSE i \in inked : \A j \in inked : i <= j
      last == CHOOSE i \in inked : \A j \in inked : j <= i
  IN RunLength(SubSeq(rs, first, last))

ValidContent(content) == ~BlankContent(content) /\ Length(content) >= MinContentLength

FailedWith(message) ==
  /\ pc = "done"
  /\ outcome.kind = "throw"
  /\ outcome.error.message = message

ProviderNames == {sClaude, sOpenai, sGemini}

\* the provider the request names, letter case aside
Named(provider) == IF provider.t = "string" THEN ToLowerCase(provider).v ELSE <<>>

AdapterOf(name) ==
  CASE name = sClaude -> "claude" [] name = sOpenai -> "openai" [] name = sGemini -> "gemini"

Credential(name) ==
  CASE name = sClaude -> env.claude [] name = sOpenai -> env.openai [] name = sGemini -> env.gemini

\* C1: for every content string that is not blank, analyzeWithAI fails with
\* the TooShort error when the content has fewer than 50 characters after
\* normalization (leading and trailing whitespace not counted) and passes
\* validation when it has 50 or more.
C1_TooShortAfterNormalization ==
  (Called /\ ~BlankContent(req.content)) =>
    IF NormalizedLength(req.content) < MinContentLength
    THEN FailedWith(TooShortError.message)
    ELSE ~FailedWith(TooShortError.message) /\ ~FailedWith(NoContentError.message)

\* C2: for every content that is empty, absent or whitespace-only, of any
\* length, analyzeWithAI fails with the EmptyContent error ('No content
\* provided for analysis') and never with TooShort.
C2_EmptyContentBeforeLength ==
  (Called /\ BlankContent(req.content)) =>
    /\ FailedWith(NoContentError.message)
    /\ outcome.error = NoContentError
    /\ adapterCalls = <<>>

C2_Witness ==
  /\ FailedWith(NoContentError.message)
  /\ req.content.t = "string"
  /\ Length(req.content) >= MinContentLength

\* C3: in every request an adapter sends, the instruction is customPrompt
\* when customPrompt is present and non-empty, whatever analysisType is;
\* otherwise the fixed block of analysisType when analysisType is one of the
\* four canonical keys; and the 'general' block for every other analysisType.
C3_InstructionSelection ==
  \A i \in DOMAIN netRequests :
    netRequests[i].text.instruction =
      IF req.customPrompt.t = "string" /\ Len(req.customPrompt.v) > 0
      THEN req.customPrompt
      ELSE IF req.analysisType.t = "string" /\ req.analysisType.v \in PromptKeys
           THEN PromptBlock(req.analysisType.v)
           ELSE PromptBlock(sGeneral)

\* C4: for each of the three providers, a call with valid content while the
\* credential of the provider is not configured fails with the NotConfigured
\* error, enters no adapter and issues no network request.
C4_NotConfiguredShortCircuits ==
  (Called /\ ValidContent(req.content) /\ Named(req.provider) \in ProviderNames
          /\ Credential(Named(req.provider)).t # "string") =>
    /\ FailedWith("API key not configured")
    /\ adapterCalls = <<>>
    /\ netRequests = <<>>

C4_Witness ==
  /\ FailedWith("API key not configured")
  /\ Named(req.provider) = sOpenai
  /\ env.claude.t = "string"
  /\ Length(req.content) = MinContentLength

\* C5: a request whose content fails validation fails with TooShort or
\* EmptyContent with no adapter invoked; a request with valid content and a
\* provider value that names none of claude, openai and gemini fails with
\* UnsupportedProvider with no adapter invoked.
C5_PreDispatchShortCircuits ==
  /\ (Called /\ ~ValidContent(req.content)) =>
       /\ FailedWith(TooShortError.message) \/ FailedWith(NoContentError.message)
       /\ adapterCalls = <<>>
  /\ (Called /\ ValidContent(req.content) /\ Named(req.provider) \notin ProviderNames) =>
       /\ FailedWith("Unsupported AI provider: ")
       /\ adapterCalls = <<>>

\* the runs p are the first characters of the runs s
IsPrefix(p, s) ==
  /\ Len(p) <= Len(s)
  /\ \A i \in DOMAIN p :
       /\ p[i].c = s[i].c
       /\ IF i < Len(p) THEN p[i].n = s[i].n ELSE p[i].n <= s[i].n

Min(a, b) == IF a < b THEN a ELSE b

\* C6: for every adapter and every content, the request text is the
\* instruction, then "\n\nDocument content:\n", then exactly the first
\* 50,000 characters of the content (the whole content when it is shorter);
\* over-long content is truncated and the request is issued, not refused.
C6_RequestTextTruncated ==
  /\ \A i \in DOMAIN netRequests :
       LET text == netRequests[i].text IN
       /\ DOMAIN text = {"instruction", "separator", "document"}
       /\ text.instruction = TemplateString(SelectPrompt(req.analysisType, req.customPrompt))
       /\ text.separator = "\n\nDocument content:\n"
       /\ IsPrefix(text.document.runs, req.content.runs)
       /\ Length(text.document) = Min(Length(req.content), 50000)
  /\ (Called /\ ValidContent(req.content) /\ Length(req.content) > 50000
             /\ Named(req.provider) \in ProviderNames
             /\ Credential(Named(req.provider)).t = "string") =>
       /\ Len(netRequests) = 1
       /\ pc = "awaiting" \/ outcome.kind = "return" \/ outcome.error.message \notin
            {TooShortError.message, NoContentError.message}

C6_Witness ==
  /\ pc = "awaiting"
  /\ Length(req.content) = 60000
  /\ Len(netRequests) = 1
  /\ Length(netRequests[1].text.document) = 50000

\* C7: in every execution of analyzeWithAI at most one network request is
\* issued and at most one adapter entered, for the provider the request
\* names; after a failed provider call there is still only that request.
C7_AtMostOneRequest ==
  /\ Len(netRequests) <= 1
  /\ Len(adapterCalls) <= 1
  /\ \A i \in DOMAIN netRequests :
       /\ Named(req.provider) \in ProviderNames
       /\ netRequests[i].provider = AdapterOf(Named(req.provider))
       /\ adapterCalls = <<netRequests[i].provider>>

C7_Witness ==
  /\ pc = "done"
  /\ outcome.kind = "throw"
  /\ outcome.error.detail = "timeout of 60000ms exceeded"
  /\ Len(netRequests) = 1

\* C8: every call ends in exactly one outcome, a thrown error or one
\* complete result in which provider, model, analysis text, tokensUsed,
\* metadata and structuredAnalysis are all populated; no result is visible
\* before the call ends.
Populated(result) ==
  /\ result.provider \in {"claude", "openai", "gemini"}
  /\ result.model # ""
  /\ result.analysis.t = "string" /\ Len(result.analysis.v) > 0
  /\ result.tokensUsed >= 0
  /\ DOMAIN result.metadata = {"analysisType", "contentLength", "processingTime", "timestamp"}
  /\ DOMAIN result.structuredAnalysis = SectionNames
  /\ result.structuredAnalysis.summary.t = "string"

C8_SingleCompleteOutcome ==
  /\ pc # "done" => outcome = NoOutcome
  /\ pc = "done" =>
       \/ outcome.kind = "throw"
       \/ outcome.kind = "return" /\ Populated(outcome.value)

\* the call has ended and its pending request was answered with this text
AnsweredWith(text) ==
  /\ pc = "done"
  /\ response.kind = "resolved"
  /\ response.items = <<JSStr(text)>>

\* the lines of a text
LinesOf(x) == {Split(x, "\n")[i] : i \in DOMAIN Split(x, "\n")}

\* C11: for a valid document of 200 characters analysed with the general
\* instruction, when the provider answers "Summary: ok\nFinding: none" the
\* call returns a result whose structuredAnalysis.summary contains the line
\* "Summary: ok" and whose reported processing time is at least 0.
C11_ScenarioA ==
  (/\ AnsweredWith(tSummaryOk \o <<"\n">> \o tFindingNone)
   /\ Length(req.content) = 200
   /\ req.analysisType = JSStr(sGeneral)
   /\ ~Truthy(req.customPrompt)) =>
    /\ outcome.kind = "return"
    /\ outcome.value.structuredAnalysis.summary.t = "string"
    /\ tSummaryOk \in LinesOf(outcome.value.structuredAnalysis.summary)
    /\ outcome.value.metadata.processingTime >= 0
    /\ processingTime = JSNum(outcome.value.metadata.processingTime)

C11_Witness ==
  /\ AnsweredWith(tSummaryOk \o <<"\n">> \o tFindingNone)
  /\ Length(req.content) = 200
  /\ netRequests[1].text.instruction = PromptBlock(sGeneral)
  /\ outcome.kind = "return"
  /\ outcome.value.metadata.processingTime > 0

\* the response carries no analysis text: its list is empty, or the text
\* field of its first item is missing or empty
NoExtractableText(resp) ==
  /\ resp.kind = "resolved"
  /\ \/ resp.items = <<>>
     \/ resp.items[1].t # "string"
     \/ Len(resp.items[1].v) = 0

\* what the error of an adapter says after a transport-level failure
TransportDetails ==
  {"timeout of 60000ms exceeded", "Network Error", "invalid api key",
   "Request failed with status code 401", "Request failed with status code 429",
   "Request failed with status code 503"}

\* C12: for each of the three adapters, a provider response with no
\* extractable analysis text (an empty list, a missing or an empty text
\* field) makes the call fail, with an error that differs from those of
\* the transport-level failures; no call returns a success result whose
\* analysis text is absent or empty.
C12_MalformedResponse ==
  /\ (pc = "done" /\ NoExtractableText(response)) =>
       /\ outcome.kind = "throw"
       /\ outcome.error.detail \notin TransportDetails
  /\ (pc = "done" /\ outcome.kind = "return") =>
       /\ outcome.value.analysis.t = "string"
       /\ Len(outcome.value.analysis.v) > 0

\* C14: when the adapter call fails the call fails and a processing time is
\* still computed for it; when the request timed out after the configured
\* duration, that processing time is at least the timeout duration.
C14_FailureKeepsProcessingTime ==
  (pc = "done" /\ response.kind = "rejected") =>
    /\ outcome.kind = "throw"
    /\ processingTime.t = "number"
    /\ response.cause = "timeout" => processingTime.v >= RequestTimeout

\* C19: the processing time reported in a successful result measures the
\* adapter call alone: it is the time from the entry of the adapter, after
\* validation and instruction selection, to the return of the adapter.
C19_TimesAdapterOnly ==
  (pc = "done" /\ outcome.kind = "return") =>
    outcome.value.metadata.processingTime = clock - dispatchedAt

(***************************************************************************)
(* Claims about concurrent calls, checked under SpecPair.                  *)
(***************************************************************************)
\* what a call with the request and the response of frame f, running with
\* no other call in flight from f.startTime to f.finishedAt, ends with
Alone(f) ==
  LET begun == Begin(env, f.req.content, f.req.provider) IN
  IF begun.kind = "throw" THEN begun
  ELSE LET adapted == AdapterResume(AdapterOf(Named(f.req.provider)), f.response) IN
       IF adapted.kind = "throw" THEN adapted
       ELSE Returned(Finish(adapted.value, f.req, f.finishedAt - f.startTime, f.finishedAt))

\* C18: two calls of analyzeWithAI in flight together do not interact: under
\* every interleaving at the await of the provider request, each call is
\* held at the adapter of its own provider while it waits, and ends with
\* the result or the error that its own request and its own response
\* produce.
C18_CallsDoNotInteract ==
  \A i \in DOMAIN frames :
    /\ frames[i].pc = "idle" => frames[i] = IdleFrame
    /\ frames[i].pc = "awaiting" =>
         /\ frames[i].outcome = NoOutcome
         /\ frames[i].adapter = AdapterOf(Named(frames[i].req.provider))
    /\ frames[i].pc = "done" => frames[i].outcome = Alone(frames[i])

C18_Witness ==
  /\ DOMAIN frames = CallIds
  /\ frames[1].pc = "done" /\ frames[2].pc = "done"
  /\ frames[1].startTime < frames[2].startTime
  /\ frames[2].startTime < frames[2].finishedAt
  /\ frames[2].finishedAt < frames[1].finishedAt
  /\ frames[1].outcome.kind = "return" /\ frames[1].outcome.value.provider = "gemini"
  /\ frames[2].outcome.kind = "return" /\ frames[2].outcome.value.provider = "claude"
  /\ frames[1].req.content # frames[2].req.content
  /\ frames[1].req.analysisType # frames[2].req.analysisType

\* the failure class of a failed call, from its request, the environment
\* and the response to its request
FailureClass(f) ==
  IF BlankContent(f.req.content) THEN "EmptyContent"
  ELSE IF Length(f.req.content) < MinContentLength THEN "TooShort"
  ELSE IF Named(f.req.provider) \notin ProviderNames THEN "UnsupportedProvider"
  ELSE IF Credential(Named(f.req.provider)).t # "string" THEN "NotConfigured"
  ELSE IF f.response.kind = "resolved" THEN "MalformedResponse"
  ELSE CASE f.response.cause = "timeout" -> "Timeout"
         [] f.response.cause = "http" /\ f.response.status = 401 -> "Unauthorized"
         [] f.response.cause = "http" /\ f.response.status = 429 -> "RateLimited"
         [] OTHER -> "Unavailable"

\* what the thrown value carries besides the text of its message
Structured(error) == [name |-> error.name]

FailedFrame(i) == frames[i].pc = "done" /\ frames[i].outcome.kind = "throw"

\* C13: the failure classes (Unauthorized, RateLimited, Timeout,
\* Unavailable, MalformedResponse, NotConfigured, TooShort, EmptyContent,
\* UnsupportedProvider) reach the caller of analyzeWithAI as distinct
\* outcomes: two calls that fail with different classes fail with values
\* that differ in something other than the free text of their messages.
C13_FailureClassesDistinct ==
  \A i \in DOMAIN frames, j \in DOMAIN frames :
    (FailedFrame(i) /\ FailedFrame(j) /\ FailureClass(frames[i]) # FailureClass(frames[j])) =>
      Structured(frames[i].outcome.error) # Structured(frames[j].outcome.error)

(***************************************************************************)
(* Claims about the document routes, checked under SpecRoutes.             *)
(***************************************************************************)
Ended(s, kind) == handlers[s].kind = kind /\ handlers[s].pc = "done"

\* C23: in POST /upload every failure raised by a provider adapter, of
\* Claude, OpenAI and Gemini alike, is answered with 503 'AI service
\* unavailable', and every other failure of the handler (validation,
\* extraction, the checks of analyzeWithAI, the database) with a status
\* other than 503.
C23_AdapterFailuresAre503 ==
  \A s \in DOMAIN handlers :
    Ended(s, "upload") =>
      /\ handlers[s].raisedBy = "adapter" =>
           handlers[s].res = Answer(503, "AI service unavailable")
      /\ handlers[s].raisedBy \in {"validation", "extraction", "analyzeWithAI", "database"} =>
           handlers[s].res.status \in {400, 500}

UploadSteps == <<"extract", "insert documents", "provider call", "insert analyses", "respond">>

\* the steps a handler has taken are the first steps of the upload flow,
\* ended by the response when the handler has ended
InUploadOrder(h) ==
  LET n == IF h.pc = "done" THEN Len(h.steps) - 1 ELSE Len(h.steps) IN
  /\ n >= 0 /\ n < Len(UploadSteps)
  /\ SubSeq(h.steps, 1, n) = SubSeq(UploadSteps, 1, n)
  /\ h.pc = "done" => h.steps[Len(h.steps)] = "respond"

\* C24: in POST /upload the steps occur in the order extract, insert of the
\* documents row, provider call, insert of the analyses row, success
\* response; the analyses row is written only after the provider call
\* succeeded; when the provider call fails or times out the request is
\* answered with an error, no analyses row exists for its document then or
\* later, and the documents row inserted before the call is not rolled
\* back (it is there unless a DELETE request removed it).
C24_UploadOrder ==
  \A s \in DOMAIN handlers :
    LET h == handlers[s] IN
    h.kind = "upload" =>
      /\ InUploadOrder(h)
      /\ ((h.pc = "done" /\ h.res.status = 200) <=> (h.steps = UploadSteps))
      /\ (\E a \in analyses : a.document_id = h.id) =>
           /\ Took(h, "insert analyses")
           /\ h.raisedBy = "none"
      /\ h.raisedBy = "adapter" =>
           /\ h.pc = "done"
           /\ h.res.status \in {500, 503}
           /\ ~Took(h, "insert analyses")
           /\ \A a \in analyses : a.document_id # h.id
           /\ h.id \in Ids(documents) \cup Ids(deleted)
      /\ Cardinality({a \in analyses : a.document_id = h.id}) <= 1

C24_Witness ==
  /\ DOMAIN handlers = SlotIds
  /\ Ended(1, "upload")
  /\ handlers[1].raisedBy = "adapter"
  /\ handlers[1].res.status = 503
  /\ handlers[1].id \in Ids(documents)
  /\ Ended(2, "upload")
  /\ handlers[2].steps = UploadSteps
  /\ \E a \in analyses : a.document_id = handlers[2].id

DeleteSteps == <<"select", "delete analyses", "delete documents", "respond">>

\* the document id names a row, present or deleted, of another user
OwnedByAnother(id, user) ==
  \E d \in documents \cup deleted : d.id = id /\ d.user_id # user

\* C25: document access is scoped to the owner: GET /:id and DELETE /:id on
\* a document of another user answer 404 after their SELECT alone, with no
\* statement that writes a table; a DELETE by the owner deletes the
\* analyses rows of the document before its documents row; and after any
\* sequence of uploads and deletes every analyses row references a
\* documents row that exists.
C25_OwnerScopedAccess ==
  /\ \A s \in DOMAIN handlers :
       LET h == handlers[s] IN
       /\ (h.kind \in {"get", "delete"} /\ OwnedByAnother(h.id, h.user)) =>
            /\ h.pc = "done"
            /\ h.res = NotFound
            /\ h.steps = <<"select", "respond">>
       /\ h.kind = "get" => h.steps = <<"select", "respond">>
       /\ h.kind = "delete" =>
            \/ h.steps = <<"select", "respond">> /\ h.res = NotFound
            \/ /\ h.steps = SubSeq(DeleteSteps, 1, Len(h.steps))
               /\ h.pc # "done" => \E d \in documents \cup deleted : d.id = h.id /\ d.user_id = h.user
               /\ h.pc = "done" => h.steps = DeleteSteps /\ h.res.status = 200
                                   /\ h.id \in Ids(deleted) /\ h.id \notin Ids(documents)
  /\ \A a \in analyses : a.document_id \in Ids(documents)

C25_Witness ==
  /\ DOMAIN handlers = SlotIds
  /\ Ended(1, "upload")
  /\ handlers[1].steps = UploadSteps
  /\ Ended(2, "delete")
  /\ handlers[2].steps = DeleteSteps
  /\ handlers[2].id = handlers[1].id
  /\ analyses = {}
  /\ documents = {}

====
